---- MODULE Spec2Model ----
(***************************************************************************)
(* The cluster convergence core of epinio, helpers/kubernetes/cluster.go:  *)
(*   - GetCluster: lazily built, memoized Cluster handle, with platform    *)
(*     detection over SupportedPlatforms and the generic fallback;         *)
(*   - the WaitFor... family: bounded polls of a condition function.       *)
(* Two specifications share the module: ClusterSpec (goroutines calling    *)
(* GetCluster), Spec (a wait called against a changing cluster) and        *)
(* SeqSpec (waits called one after another).                               *)
(***************************************************************************)
EXTENDS Integers, Sequences, FiniteSets, TLC

(***************************************************************************)
(* Bounds of the model.                                                    *)
(***************************************************************************)
\* goroutines that call GetCluster
NumProcs == 2
\* GetCluster calls made in all, over all goroutines
MaxCalls == 2
\* clock ticks of the model per second
Resolution == 2
\* largest timeout argument of a wait, in clock ticks
MaxTimeout == 4
\* largest number of pods a selector matches
MaxPods == 2
\* number of distinct contents the awaited secret can have
MaxSecrets == 2

VARIABLES
    \* ---- GetCluster ----
    clusterMemo,  \* var clusterMemo *Cluster: Nil or the address of a Cluster
    heap,         \* the Cluster objects allocated so far (address = index)
    detects,      \* what each platform's Detect probe answers on this cluster
    pc,           \* per goroutine: where it is inside GetCluster
    c,            \* per goroutine: the local c := &Cluster{}
    log,          \* per goroutine: collaborator calls made by the running call
    hist,         \* per goroutine: the GetCluster calls it has completed
    assigns,      \* number of assignments made to clusterMemo
    ncalls,       \* number of GetCluster calls begun
    overlap,      \* two initializations were in progress at the same time
    \* ---- the waits ----
    now,          \* the clock, in ticks
    target,       \* what a read of the awaited resource answers at this moment
    wkind,        \* the wait that was called
    wpc,          \* where the wait is: idle, immediate, waiting, returned, done
    timeout,      \* the timeout argument, in ticks
    phase,        \* WaitForCRD: 1 = first poll (existence), 2 = second (established)
    pollStart,    \* when the running wait.PollImmediate was called
    nextTick,     \* when the poller's ticker fires next
    evals,        \* the evaluations of the condition made by the running poll
    pollResult,   \* what the poll returned: none, nil, timeout or the hard error
    pollEnd,      \* when the poll returned
    secret,       \* WaitForSecret: the local variable secret
    result,       \* what the wait returned to its caller
    trueSince,    \* since when the condition has held without a break (None: it does not hold)
    ctx,          \* the context passed to the wait: live, or done (cancelled, deadline exceeded)
    timeoutErrs,  \* timeout errors the waits have returned, each with the wait and poll it came from
    \* ---- Linkerd.Delete ----
    lpc,          \* where Delete is: idle, apply, wait, roles, done
    lcalls,       \* the calls Delete has made, in order, each with the error it returned
    lret,         \* what Delete returned
    \* ---- gitea.New ----
    clientMemo,   \* var clientMemo *Client: Nil or the address of a Client
    clients,      \* the Client objects allocated so far (address = index)
    gpc,          \* where New is: idle, cluster, domain, url, creds, client, done
    s,            \* the gitea-creds secret in the cluster
    creds,        \* what getGiteaCredentials returned to New
    gret,         \* what New returned
    gcalls,       \* number of calls of New begun
    builtFrom     \* for each Client, the data of the secret it was built from

clusterVars == <<clusterMemo, heap, detects, pc, c, log, hist, assigns, ncalls, overlap>>

waitVars == <<now, target, wkind, wpc, timeout, phase, pollStart, nextTick, evals,
              pollResult, pollEnd, secret, result, trueSince, ctx, timeoutErrs>>

linkerdVars == <<lpc, lcalls, lret>>

giteaVars == <<clientMemo, clients, gpc, s, creds, gret, gcalls, builtFrom>>

vars == <<clusterMemo, heap, detects, pc, c, log, hist, assigns, ncalls, overlap,
          now, target, wkind, wpc, timeout, phase, pollStart, nextTick, evals,
          pollResult, pollEnd, secret, result, trueSince, ctx, timeoutErrs,
          lpc, lcalls, lret,
          clientMemo, clients, gpc, s, creds, gret, gcalls, builtFrom>>

\* the nil pointer
Nil == 0

\* no time: before every time of the clock
None == Nil - 1

\* No wait has been called.
WaitIdle ==
    /\ now = 0
    /\ target = [err |-> "nil", conds |-> <<>>, items |-> 0, data |-> 0]
    /\ wkind = "none"
    /\ wpc = "idle"
    /\ timeout = 0
    /\ phase = 1
    /\ pollStart = 0
    /\ nextTick = 0
    /\ evals = <<>>
    /\ pollResult = "none"
    /\ pollEnd = None
    /\ secret = Nil
    /\ result = "none"
    /\ trueSince = None
    /\ ctx = "live"

(***************************************************************************)
(* GetCluster                                                              *)
(***************************************************************************)

Procs == 1..NumProcs

\* var SupportedPlatforms = []Platform{kind, k3s, ibm, minikube}
SupportedPlatforms == <<"kind", "k3s", "ibm", "minikube">>

\* generic.NewPlatform()
GenericPlatform == "generic"

\* the zero value of the platform field
NilPlatform == "nil"

PlatformNames == {SupportedPlatforms[i] : i \in 1..Len(SupportedPlatforms)}

\* type Cluster struct { Kubectl, RestConfig, platform }; loaded records that
\* platform.Load returned nil for this handle.
NewCluster == [RestConfig |-> FALSE, Kubectl |-> FALSE,
               platform |-> NilPlatform, loaded |-> FALSE]

\* A detection loop that forgets the return: the last matching strategy wins
\* and every probe runs.
RECURSIVE detectLoopNoReturn(_, _, _, _)
detectLoopNoReturn(d, i, sel, probed) ==
    IF i > Len(SupportedPlatforms)
    THEN [platform |-> sel, probed |-> probed]
    ELSE detectLoopNoReturn(d, i + 1,
             IF d[SupportedPlatforms[i]] THEN SupportedPlatforms[i] ELSE sel,
             Append(probed, SupportedPlatforms[i]))

\* for _, p := range SupportedPlatforms { if p.Detect(..) { c.platform = p; return } }
\* sel is c.platform so far, probed the Detect calls made so far.
RECURSIVE detectLoop(_, _, _, _)
detectLoop(d, i, sel, probed) ==
    IF i > Len(SupportedPlatforms)
    THEN [platform |-> sel, probed |-> probed]
    ELSE IF d[SupportedPlatforms[i]]
         THEN [platform |-> SupportedPlatforms[i],
               probed |-> Append(probed, SupportedPlatforms[i])]
         ELSE detectLoop(d, i + 1, sel, Append(probed, SupportedPlatforms[i]))

\* c.detectPlatform(ctx)
detectPlatform(d) == detectLoop(d, 1, NilPlatform, <<>>)

\* A fallback that is left out.
noFallback(pl) == pl

\* if c.platform == nil { c.platform = generic.NewPlatform() }
platformOrGeneric(pl) == IF pl = NilPlatform THEN GenericPlatform ELSE pl

\* A memo check that never hits.
neverMemoized == FALSE

\* if clusterMemo != nil
memoized == clusterMemo # Nil

\* The Detect calls of one detection run, as log entries.
ProbeEvents(d, probed) ==
    [i \in 1..Len(probed) |->
        [op |-> "Detect", platform |-> probed[i], ok |-> d[probed[i]]]]

\* One completed GetCluster call, as its caller saw it: the handle returned
\* (Nil with an error), the error, whether the memo answered, the collaborator
\* calls it made, and the platform the returned handle had at that moment.
CallRecord(ret, err, hit, lg) ==
    [ret |-> ret, err |-> err, hit |-> hit, log |-> lg,
     platform |-> IF ret = Nil THEN NilPlatform ELSE heap[ret].platform]

\* Linkerd.Delete has not been called.
LinkerdIdle ==
    /\ lpc = "idle"
    /\ lcalls = <<>>
    /\ lret = "none"

\* the key is not in the map Data
Absent == "absent"

\* a secret without data
NoData == [username |-> Absent, password |-> Absent]

\* gitea.New has not been called.
GiteaIdle ==
    /\ clientMemo = Nil
    /\ clients = <<>>
    /\ gpc = "idle"
    /\ s = [err |-> "nil", Data |-> NoData]
    /\ creds = [username |-> "", password |-> "", err |-> "none"]
    /\ gret = [client |-> Nil, err |-> "none"]
    /\ gcalls = 0
    /\ builtFrom = <<>>

\* The process has started: nothing is memoized, no goroutine is in GetCluster.
ClusterInit ==
    /\ WaitIdle
    /\ timeoutErrs = {}
    /\ LinkerdIdle
    /\ GiteaIdle
    /\ clusterMemo = Nil
    /\ heap = <<>>
    /\ detects \in [PlatformNames -> BOOLEAN]
    /\ pc = [p \in Procs |-> "idle"]
    /\ c = [p \in Procs |-> Nil]
    /\ log = [p \in Procs |-> <<>>]
    /\ hist = [p \in Procs |-> <<>>]
    /\ assigns = 0
    /\ ncalls = 0
    /\ overlap = FALSE

\* GetCluster, lines 80-82: the memo answers.
GetClusterMemoHit(p) ==
    /\ pc[p] = "idle"
    /\ ncalls < MaxCalls
    /\ memoized
    /\ hist' = [hist EXCEPT ![p] = Append(@, CallRecord(clusterMemo, "none", TRUE, <<>>))]
    /\ ncalls' = ncalls + 1
    /\ UNCHANGED <<clusterMemo, heap, detects, pc, c, log, assigns, overlap>>
    /\ UNCHANGED <<waitVars, linkerdVars, giteaVars>>

\* A GetCluster that builds the handle in the memo: clusterMemo = &Cluster{}.
GetClusterBeginInMemo(p) ==
    /\ pc[p] = "idle"
    /\ ncalls < MaxCalls
    /\ ~memoized
    /\ heap' = Append(heap, NewCluster)
    /\ c' = [c EXCEPT ![p] = Len(heap) + 1]
    /\ clusterMemo' = Len(heap) + 1
    /\ assigns' = assigns + 1
    /\ log' = [log EXCEPT ![p] = <<>>]
    /\ pc' = [pc EXCEPT ![p] = "config"]
    /\ ncalls' = ncalls + 1
    /\ overlap' = (overlap \/ \E q \in Procs \ {p} : pc[q] # "idle")
    /\ UNCHANGED <<detects, hist>>
    /\ UNCHANGED <<waitVars, linkerdVars, giteaVars>>

\* GetCluster, lines 80-84: the memo is empty, c := &Cluster{}.
GetClusterBegin(p) ==
    /\ pc[p] = "idle"
    /\ ncalls < MaxCalls
    /\ ~memoized
    /\ heap' = Append(heap, NewCluster)
    /\ c' = [c EXCEPT ![p] = Len(heap) + 1]
    /\ log' = [log EXCEPT ![p] = <<>>]
    /\ pc' = [pc EXCEPT ![p] = "config"]
    /\ ncalls' = ncalls + 1
    /\ overlap' = (overlap \/ \E q \in Procs \ {p} : pc[q] # "idle")
    /\ UNCHANGED <<clusterMemo, detects, hist, assigns>>
    /\ UNCHANGED <<waitVars, linkerdVars, giteaVars>>

\* return nil, err
ReturnError(p, err, lg) ==
    /\ hist' = [hist EXCEPT ![p] = Append(@, CallRecord(Nil, err, FALSE, lg))]
    /\ pc' = [pc EXCEPT ![p] = "idle"]
    /\ c' = [c EXCEPT ![p] = Nil]
    /\ log' = [log EXCEPT ![p] = <<>>]

\* GetCluster, lines 86-96: restConfig, err := kubeconfig.KubeConfig()
KubeConfig(p) ==
    /\ pc[p] = "config"
    /\ \E ok \in BOOLEAN :
         LET lg == Append(log[p], [op |-> "KubeConfig", platform |-> NilPlatform, ok |-> ok])
         IN IF ok
            THEN /\ heap' = [heap EXCEPT ![c[p]].RestConfig = TRUE]
                 /\ log' = [log EXCEPT ![p] = lg]
                 /\ pc' = [pc EXCEPT ![p] = "client"]
                 /\ UNCHANGED <<c, hist>>
            ELSE /\ ReturnError(p, "config", lg)
                 /\ UNCHANGED heap
    /\ UNCHANGED <<clusterMemo, detects, assigns, ncalls, overlap>>
    /\ UNCHANGED <<waitVars, linkerdVars, giteaVars>>

\* GetCluster, lines 97-101: clientset, err := kubernetes.NewForConfig(config)
NewForConfig(p) ==
    /\ pc[p] = "client"
    /\ \E ok \in BOOLEAN :
         LET lg == Append(log[p], [op |-> "NewForConfig", platform |-> NilPlatform, ok |-> ok])
         IN IF ok
            THEN /\ heap' = [heap EXCEPT ![c[p]].Kubectl = TRUE]
                 /\ log' = [log EXCEPT ![p] = lg]
                 /\ pc' = [pc EXCEPT ![p] = "detect"]
                 /\ UNCHANGED <<c, hist>>
            ELSE /\ ReturnError(p, "client", lg)
                 /\ UNCHANGED heap
    /\ UNCHANGED <<clusterMemo, detects, assigns, ncalls, overlap>>
    /\ UNCHANGED <<waitVars, linkerdVars, giteaVars>>

\* GetCluster, lines 102-105: c.detectPlatform(ctx), then the generic fallback.
DetectPlatform(p) ==
    /\ pc[p] = "detect"
    /\ LET r == detectPlatform(detects)
       IN /\ heap' = [heap EXCEPT ![c[p]].platform = platformOrGeneric(r.platform)]
          /\ log' = [log EXCEPT ![p] = @ \o ProbeEvents(detects, r.probed)]
    /\ pc' = [pc EXCEPT ![p] = "load"]
    /\ UNCHANGED <<clusterMemo, detects, c, hist, assigns, ncalls, overlap>>
    /\ UNCHANGED <<waitVars, linkerdVars, giteaVars>>

\* A Load whose failure is ignored: the handle goes on to be memoized.
LoadIgnoringError(p) ==
    /\ pc[p] = "load"
    /\ \E ok \in BOOLEAN :
         /\ log' = [log EXCEPT ![p] =
                Append(@, [op |-> "Load", platform |-> heap[c[p]].platform, ok |-> ok])]
         /\ heap' = [heap EXCEPT ![c[p]].loaded = ok]
    /\ pc' = [pc EXCEPT ![p] = "memoize"]
    /\ UNCHANGED <<clusterMemo, detects, c, hist, assigns, ncalls, overlap>>
    /\ UNCHANGED <<waitVars, linkerdVars, giteaVars>>

\* A Load placed after the memo assignment: a failed Load leaves c in the memo.
LoadAfterMemoize(p) ==
    /\ pc[p] = "load"
    /\ \E ok \in BOOLEAN :
         LET lg == Append(log[p], [op |-> "Load", platform |-> heap[c[p]].platform, ok |-> ok])
         IN IF ok
            THEN /\ heap' = [heap EXCEPT ![c[p]].loaded = TRUE]
                 /\ log' = [log EXCEPT ![p] = lg]
                 /\ pc' = [pc EXCEPT ![p] = "memoize"]
                 /\ UNCHANGED <<c, hist, clusterMemo, assigns>>
            ELSE /\ clusterMemo' = c[p]
                 /\ assigns' = assigns + 1
                 /\ ReturnError(p, "load", lg)
                 /\ UNCHANGED heap
    /\ UNCHANGED <<detects, ncalls, overlap>>
    /\ UNCHANGED <<waitVars, linkerdVars, giteaVars>>

\* GetCluster, lines 107-110: err = c.platform.Load(ctx, clientset)
Load(p) ==
    /\ pc[p] = "load"
    /\ \E ok \in BOOLEAN :
         LET lg == Append(log[p], [op |-> "Load", platform |-> heap[c[p]].platform, ok |-> ok])
         IN IF ok
            THEN /\ heap' = [heap EXCEPT ![c[p]].loaded = TRUE]
                 /\ log' = [log EXCEPT ![p] = lg]
                 /\ pc' = [pc EXCEPT ![p] = "memoize"]
                 /\ UNCHANGED <<c, hist>>
            ELSE /\ ReturnError(p, "load", lg)
                 /\ UNCHANGED heap
    /\ UNCHANGED <<clusterMemo, detects, assigns, ncalls, overlap>>
    /\ UNCHANGED <<waitVars, linkerdVars, giteaVars>>

\* GetCluster, line 112: clusterMemo = c
Memoize(p) ==
    /\ pc[p] = "memoize"
    /\ clusterMemo' = c[p]
    /\ assigns' = assigns + 1
    /\ pc' = [pc EXCEPT ![p] = "return"]
    /\ UNCHANGED <<heap, detects, c, log, hist, ncalls, overlap>>
    /\ UNCHANGED <<waitVars, linkerdVars, giteaVars>>

\* GetCluster, line 114: return clusterMemo, nil (the global is read again)
ReturnMemo(p) ==
    /\ pc[p] = "return"
    /\ hist' = [hist EXCEPT ![p] = Append(@, CallRecord(clusterMemo, "none", FALSE, log[p]))]
    /\ pc' = [pc EXCEPT ![p] = "idle"]
    /\ c' = [c EXCEPT ![p] = Nil]
    /\ log' = [log EXCEPT ![p] = <<>>]
    /\ UNCHANGED <<clusterMemo, heap, detects, assigns, ncalls, overlap>>
    /\ UNCHANGED <<waitVars, linkerdVars, giteaVars>>

ClusterNext ==
    \E p \in Procs :
        \/ GetClusterMemoHit(p)
        \/ GetClusterBegin(p)
        \/ KubeConfig(p)
        \/ NewForConfig(p)
        \/ DetectPlatform(p)
        \/ Load(p)
        \/ Memoize(p)
        \/ ReturnMemo(p)

ClusterSpec == ClusterInit /\ [][ClusterNext]_vars

(***************************************************************************)
(* The waits: condition functions                                          *)
(***************************************************************************)
\* time.Second, the interval every wait passes to wait.PollImmediate
Interval == Resolution

\* the clock stops here (a wait with timeout 0 has no deadline)
MaxTime == 2 * MaxTimeout + Interval

WaitKinds == {"JobDone", "DeploymentCompleted", "NamespaceMissing",
              "PodBySelectorMissing", "Secret", "CRD"}

\* v1.ConditionTrue and v1.ConditionFalse
Statuses == {"True", "False"}

\* the condition types a resource of each kind can carry
CondTypes(kind) ==
    CASE kind = "JobDone" -> <<"Complete", "Failed", "Suspended">>
      [] kind = "DeploymentCompleted" -> <<"Available", "Progressing", "ReplicaFailure">>
      [] kind = "CRD" -> <<"Established", "NamesAccepted", "Terminating">>
      [] OTHER -> <<>>

\* The answer of a Get or List: err is "nil", "NotFound" (apierrors.IsNotFound)
\* or "ApiErr" (any other failure); conds is Status.Conditions, items is
\* the number of pods the selector matches (len(podList.Items) when the List
\* succeeds), data identifies the secret's content.
Read(err, conds, items, data) ==
    [err |-> err, conds |-> conds, items |-> items, data |-> data]

\* Status.Conditions holds at most one condition per type.
CondLists(kind) ==
    LET types == CondTypes(kind)
    IN {SelectSeq([i \in 1..Len(types) |-> [type |-> types[i], status |-> f[i]]],
                  LAMBDA e : e.status # "absent") :
            f \in [1..Len(types) -> Statuses \cup {"absent"}]}

\* everything a read of the awaited resource can answer
Targets(kind) ==
    CASE kind \in {"JobDone", "DeploymentCompleted", "CRD"} ->
            {Read("NotFound", <<>>, 0, 0), Read("ApiErr", <<>>, 0, 0)}
                \cup {Read("nil", cl, 0, 0) : cl \in CondLists(kind)}
      [] kind = "NamespaceMissing" ->
            {Read(e, <<>>, 0, 0) : e \in {"nil", "NotFound", "ApiErr"}}
      [] kind = "PodBySelectorMissing" ->
            {Read(e, <<>>, n, 0) : e \in {"nil", "ApiErr"}, n \in 0..MaxPods}
      [] kind = "Secret" ->
            {Read("NotFound", <<>>, 0, 0), Read("ApiErr", <<>>, 0, 0)}
                \cup {Read("nil", <<>>, 0, d) : d \in 1..MaxSecrets}
      [] OTHER -> {}

\* A read that pays no attention to its context.
ReadIgnoringCtx(cx, r) == r

\* Get(ctx, ...) and List(ctx, ...): a read made with a context that is done
\* fails with the context's error, which is not a "not found" error.
ReadWith(cx, r) == IF cx = "done" THEN Read("CtxErr", <<>>, 0, 0) ELSE r

\* what a condition function returns: (bool, error)
CondResult(done, err) == [done |-> done, err |-> err]

\* for _, condition := range Status.Conditions { if <match> { return true, nil } }
\* return false, nil
RECURSIVE anyCondition(_, _, _)
anyCondition(conds, types, status) ==
    IF conds = <<>> THEN FALSE
    ELSE IF Head(conds).status = status /\ Head(conds).type \in types
         THEN TRUE
         ELSE anyCondition(Tail(conds), types, status)

\* An IsJobDone that takes only a completed job as done, not a failed one.
IsJobDoneCompleteOnly(r) ==
    IF r.err # "nil" THEN CondResult(FALSE, r.err)
    ELSE CondResult(anyCondition(r.conds, {"Complete"}, "True"), "nil")

\* An IsJobDone that takes a job that is not found as "not yet".
IsJobDoneNotFoundRetries(r) ==
    IF r.err # "nil"
    THEN IF r.err = "NotFound" THEN CondResult(FALSE, "nil")
         ELSE CondResult(FALSE, r.err)
    ELSE CondResult(anyCondition(r.conds, {"Failed", "Complete"}, "True"), "nil")

\* Cluster.IsJobDone
IsJobDone(r) ==
    IF r.err # "nil" THEN CondResult(FALSE, r.err)
    ELSE CondResult(anyCondition(r.conds, {"Failed", "Complete"}, "True"), "nil")

\* An IsDeploymentCompleted that looks at the type of a condition only.
IsDeploymentCompletedAnyStatus(r) ==
    IF r.err # "nil" THEN CondResult(FALSE, r.err)
    ELSE CondResult(\E i \in DOMAIN r.conds : r.conds[i].type = "Available", "nil")

\* Cluster.IsDeploymentCompleted
IsDeploymentCompleted(r) ==
    IF r.err # "nil" THEN CondResult(FALSE, r.err)
    ELSE CondResult(anyCondition(r.conds, {"Available"}, "True"), "nil")

\* Cluster.NamespaceExists: (exists bool, err error)
NamespaceExists(r) ==
    IF r.err # "nil"
    THEN IF r.err = "NotFound" THEN [exists |-> FALSE, err |-> "nil"]
         ELSE [exists |-> FALSE, err |-> r.err]
    ELSE [exists |-> TRUE, err |-> "nil"]

\* A NamespaceDoesNotExist that returns exists, not its negation.
NamespaceDoesNotExistNotNegated(r) ==
    CondResult(NamespaceExists(r).exists, NamespaceExists(r).err)

\* Cluster.NamespaceDoesNotExist: return !exists, err
NamespaceDoesNotExist(r) ==
    CondResult(~NamespaceExists(r).exists, NamespaceExists(r).err)

\* A PodDoesNotExist that returns the error of the List.
PodDoesNotExistReturnsError(r) ==
    IF r.err # "nil" THEN CondResult(FALSE, r.err)
    ELSE IF r.items > 0 THEN CondResult(FALSE, "nil")
    ELSE CondResult(TRUE, "nil")

\* Cluster.PodDoesNotExist
PodDoesNotExist(r) ==
    IF r.err # "nil" THEN CondResult(TRUE, "nil")
    ELSE IF r.items > 0 THEN CondResult(FALSE, "nil")
    ELSE CondResult(TRUE, "nil")

\* A condition function of WaitForSecret that returns every error of the Get.
SecretExistsNotFoundIsError(r) ==
    IF r.err # "nil" THEN CondResult(FALSE, r.err)
    ELSE CondResult(TRUE, "nil")

\* the condition function of WaitForSecret
SecretExists(r) ==
    IF r.err # "nil"
    THEN IF r.err = "NotFound" THEN CondResult(FALSE, "nil")
         ELSE CondResult(FALSE, r.err)
    ELSE CondResult(TRUE, "nil")

\* the condition function of the first poll of WaitForCRD
CRDExists(r) ==
    IF r.err # "nil"
    THEN IF r.err = "NotFound" THEN CondResult(FALSE, "nil")
         ELSE CondResult(FALSE, r.err)
    ELSE CondResult(TRUE, "nil")

\* A second poll that takes "not found" as "not yet", as the first poll does.
CRDEstablishedNotFoundRetries(r) ==
    IF r.err # "nil"
    THEN IF r.err = "NotFound" THEN CondResult(FALSE, "nil")
         ELSE CondResult(FALSE, r.err)
    ELSE CondResult(anyCondition(r.conds, {"Established"}, "True"), "nil")

\* the condition function of the second poll of WaitForCRD
CRDEstablished(r) ==
    IF r.err # "nil" THEN CondResult(FALSE, r.err)
    ELSE CondResult(anyCondition(r.conds, {"Established"}, "True"), "nil")

\* the condition function each wait hands to wait.PollImmediate
Condition(kind, ph, r) ==
    CASE kind = "JobDone" -> IsJobDone(r)
      [] kind = "DeploymentCompleted" -> IsDeploymentCompleted(r)
      [] kind = "NamespaceMissing" -> NamespaceDoesNotExist(r)
      [] kind = "PodBySelectorMissing" -> PodDoesNotExist(r)
      [] kind = "Secret" -> SecretExists(r)
      [] kind = "CRD" /\ ph = 1 -> CRDExists(r)
      [] kind = "CRD" /\ ph = 2 -> CRDEstablished(r)

\* the condition function reports "satisfied"
Satisfied(kind, ph, r) == Condition(kind, ph, r).done /\ Condition(kind, ph, r).err = "nil"

(***************************************************************************)
(* The waits: wait.PollImmediate(time.Second, timeout, condition)          *)
(*                                                                         *)
(* PollImmediate (k8s.io/apimachinery/pkg/util/wait) calls the condition   *)
(* at once; if it neither fails nor is satisfied, a poller sends a signal  *)
(* every interval and, unless the timeout is 0, closes its channel when    *)
(* the timeout has elapsed; the condition is called once for each signal   *)
(* and once more when the channel is closed, and the poll returns          *)
(* ErrWaitTimeout if that last call is not satisfied either.  A call of    *)
(* the condition takes no time on the model's clock.                       *)
(***************************************************************************)
\* A poll that looks at done before err.
pollOutcomeDoneFirst(r) ==
    IF r.done THEN "nil" ELSE IF r.err # "nil" THEN r.err ELSE "continue"

\* after each call of the condition: if err != nil { return err }; if done { return nil }
pollOutcome(r) ==
    IF r.err # "nil" THEN r.err ELSE IF r.done THEN "nil" ELSE "continue"

\* wait.Poll in the place of wait.PollImmediate: the first call of the
\* condition waits for the first signal of the poller.
Poll(ph) ==
    /\ wpc' = "waiting"
    /\ phase' = ph
    /\ pollStart' = now
    /\ nextTick' = now + Interval
    /\ evals' = <<>>
    /\ pollResult' = "none"
    /\ pollEnd' = None

\* wait.PollImmediate is called: the condition is to be called at once.
PollImmediate(ph) ==
    /\ wpc' = "immediate"
    /\ phase' = ph
    /\ pollStart' = now
    /\ nextTick' = now + Interval
    /\ evals' = <<>>
    /\ pollResult' = "none"
    /\ pollEnd' = None

\* the accessor operation a condition function issues: Pods(ns).List for the
\* pods of a selector, Get for every other resource
AccessorOp(kind) == IF kind = "PodBySelectorMissing" THEN "list" ELSE "get"

\* One call of the condition by the poll; last: the poller's channel is closed.
RunCondition(last) ==
    LET rd == ReadWith(ctx, target)
        r == Condition(wkind, phase, rd)
        o == pollOutcome(r)
    IN /\ evals' = Append(evals, [at |-> now, op |-> AccessorOp(wkind), ctx |-> ctx,
                                  read |-> rd.err, done |-> r.done, err |-> r.err])
       /\ secret' = IF wkind = "Secret"
                    THEN (IF rd.err = "nil" THEN rd.data ELSE Nil)
                    ELSE secret
       /\ IF o = "continue" /\ ~last
          THEN /\ wpc' = "waiting"
               /\ UNCHANGED <<pollResult, pollEnd>>
          ELSE /\ wpc' = "returned"
               /\ pollResult' = IF o = "continue" THEN "timeout" ELSE o
               /\ pollEnd' = now

\* A wait is called with a timeout, against a cluster in which a read of the
\* awaited resource answers r0.
StartWait(kind, T, r0) ==
    /\ wpc = "idle"
    /\ wkind' = kind
    /\ timeout' = T
    /\ target' = r0
    /\ trueSince' = IF Satisfied(kind, 1, r0) THEN now ELSE None
    /\ ctx' = "live"
    /\ UNCHANGED <<now, secret, timeoutErrs>>
    /\ UNCHANGED <<clusterVars, linkerdVars, giteaVars>>

\* return err, the client could not be built from c.RestConfig
ReturnConfigError ==
    /\ wpc' = "done"
    /\ result' = "ConfigErr"
    /\ UNCHANGED <<phase, pollStart, nextTick, evals, pollResult, pollEnd>>

\* the ui argument of a wait: a *termui.UI, or nil
UIs == {"ui", "nil"}

\* s := ui.Progressf(...); defer s.Stop().  The termui package is not among
\* the sources: on a UI the call returns and the wait goes on (the progress
\* sink takes no part in control flow); on a nil *termui.UI the method is
\* entered with a nil receiver and returns, or panics where it uses it.
Progressf(ui) == IF ui = "nil" THEN {"returned", "panic"} ELSE {"returned"}

\* if ui != nil { s := ui.Progressf(...); defer s.Stop() }
ProgressfIfUI(ui) == IF ui # "nil" THEN Progressf(ui) ELSE {"skipped"}

\* the goroutine panics: the wait ends without returning
Panic ==
    /\ wpc' = "done"
    /\ result' = "panic"
    /\ UNCHANGED <<phase, pollStart, nextTick, evals, pollResult, pollEnd>>

\* Cluster.WaitForJobDone
WaitForJobDone ==
    \E T \in 0..MaxTimeout, r0 \in Targets("JobDone"), cfgOk \in BOOLEAN :
        /\ StartWait("JobDone", T, r0)
        /\ IF cfgOk THEN PollImmediate(1) /\ UNCHANGED result
           ELSE ReturnConfigError

\* Cluster.WaitForDeploymentCompleted
WaitForDeploymentCompleted ==
    \E T \in 0..MaxTimeout, r0 \in Targets("DeploymentCompleted"), ui \in UIs :
        /\ StartWait("DeploymentCompleted", T, r0)
        /\ \E pr \in ProgressfIfUI(ui) :
              IF pr = "panic" THEN Panic
              ELSE PollImmediate(1) /\ UNCHANGED result

\* Cluster.WaitForNamespaceMissing
WaitForNamespaceMissing ==
    \E T \in 0..MaxTimeout, r0 \in Targets("NamespaceMissing"), ui \in UIs :
        /\ StartWait("NamespaceMissing", T, r0)
        /\ \E pr \in ProgressfIfUI(ui) :
              IF pr = "panic" THEN Panic
              ELSE PollImmediate(1) /\ UNCHANGED result

\* Cluster.WaitForPodBySelectorMissing
WaitForPodBySelectorMissing ==
    \E T \in 0..MaxTimeout, r0 \in Targets("PodBySelectorMissing") :
        /\ StartWait("PodBySelectorMissing", T, r0)
        /\ PollImmediate(1)
        /\ UNCHANGED result

\* Cluster.WaitForSecret
WaitForSecret ==
    \E T \in 0..MaxTimeout, r0 \in Targets("Secret") :
        /\ StartWait("Secret", T, r0)
        /\ PollImmediate(1)
        /\ UNCHANGED result

\* Cluster.WaitForCRD, up to the first poll
WaitForCRD ==
    \E T \in 0..MaxTimeout, r0 \in Targets("CRD"), cfgOk \in BOOLEAN, ui \in UIs :
        /\ StartWait("CRD", T, r0)
        /\ \E pr \in Progressf(ui) :
              IF pr = "panic" THEN Panic
              ELSE IF cfgOk THEN PollImmediate(1) /\ UNCHANGED result
              ELSE ReturnConfigError

\* A first call of the condition that deletes the resource it reads.
EvalImmediateDeleting ==
    /\ wpc = "immediate"
    /\ RunCondition(FALSE)
    /\ target' = Read("NotFound", <<>>, 0, 0)
    /\ UNCHANGED <<now, wkind, timeout, phase, pollStart, nextTick, result,
                   trueSince, ctx, timeoutErrs>>
    /\ UNCHANGED <<clusterVars, linkerdVars, giteaVars>>

\* The condition is called before any waiting.
EvalImmediate ==
    /\ wpc = "immediate"
    /\ RunCondition(FALSE)
    /\ UNCHANGED <<now, target, wkind, timeout, phase, pollStart, nextTick, result,
                   trueSince, ctx, timeoutErrs>>
    /\ UNCHANGED <<clusterVars, linkerdVars, giteaVars>>

\* A ticker that fires twice per interval.
TickFireTwicePerInterval ==
    /\ wpc = "waiting"
    /\ now = nextTick
    /\ RunCondition(FALSE)
    /\ nextTick' = nextTick + 1
    /\ UNCHANGED <<now, target, wkind, timeout, phase, pollStart, result,
                   trueSince, ctx, timeoutErrs>>
    /\ UNCHANGED <<clusterVars, linkerdVars, giteaVars>>

\* The poller's ticker fires: the condition is called again.
TickFire ==
    /\ wpc = "waiting"
    /\ now = nextTick
    /\ RunCondition(FALSE)
    /\ nextTick' = nextTick + Interval
    /\ UNCHANGED <<now, target, wkind, timeout, phase, pollStart, result,
                   trueSince, ctx, timeoutErrs>>
    /\ UNCHANGED <<clusterVars, linkerdVars, giteaVars>>

\* A deadline that ends the poll without a last call of the condition.
TimerFireNoLastCall ==
    /\ wpc = "waiting"
    /\ timeout # 0
    /\ now = pollStart + timeout
    /\ wpc' = "returned"
    /\ pollResult' = "timeout"
    /\ pollEnd' = now
    /\ UNCHANGED <<now, target, wkind, timeout, phase, pollStart, nextTick, evals,
                   secret, result, trueSince, ctx, timeoutErrs>>
    /\ UNCHANGED <<clusterVars, linkerdVars, giteaVars>>

\* The timeout has elapsed (timeout != 0): the poller closes its channel, the
\* condition is called one last time.
TimerFire ==
    /\ wpc = "waiting"
    /\ timeout # 0
    /\ now = pollStart + timeout
    /\ RunCondition(TRUE)
    /\ UNCHANGED <<now, target, wkind, timeout, phase, pollStart, nextTick, result,
                   trueSince, ctx, timeoutErrs>>
    /\ UNCHANGED <<clusterVars, linkerdVars, giteaVars>>

\* A WaitForCRD that starts its second poll whatever the first poll returned.
WaitForCRDIgnoringFirstPoll ==
    /\ wpc = "returned"
    /\ wkind = "CRD" /\ phase = 1
    /\ PollImmediate(2)
    /\ trueSince' = IF Satisfied("CRD", 2, ReadWith(ctx, target)) THEN now ELSE None
    /\ UNCHANGED <<now, target, wkind, timeout, secret, result, ctx, timeoutErrs>>
    /\ UNCHANGED <<clusterVars, linkerdVars, giteaVars>>

\* A WaitForCRD with one deadline for both polls: the second poll ends when
\* the timeout has elapsed since the first poll started.
WaitForCRDOneDeadline ==
    /\ wpc = "returned"
    /\ wkind = "CRD" /\ phase = 1 /\ pollResult = "nil"
    /\ wpc' = "immediate"
    /\ phase' = 2
    /\ nextTick' = now + Interval
    /\ evals' = <<>>
    /\ pollResult' = "none"
    /\ pollEnd' = None
    /\ trueSince' = IF Satisfied("CRD", 2, ReadWith(ctx, target)) THEN now ELSE None
    /\ UNCHANGED <<now, target, wkind, timeout, pollStart, secret, result, ctx,
                   timeoutErrs>>
    /\ UNCHANGED <<clusterVars, linkerdVars, giteaVars>>

\* Cluster.WaitForCRD, lines 245-250: the first poll returned nil, the second
\* poll starts with the same timeout.
WaitForCRDEstablished ==
    /\ wpc = "returned"
    /\ wkind = "CRD" /\ phase = 1 /\ pollResult = "nil"
    /\ PollImmediate(2)
    /\ trueSince' = IF Satisfied("CRD", 2, ReadWith(ctx, target)) THEN now ELSE None
    /\ UNCHANGED <<now, target, wkind, timeout, secret, result, ctx, timeoutErrs>>
    /\ UNCHANGED <<clusterVars, linkerdVars, giteaVars>>

\* the waits whose timeout errors are kept in timeoutErrs, to be compared
KeptTimeouts == {"CRD", "JobDone"}

\* The wait returns what its (last) poll returned.
ReturnFromWait ==
    /\ wpc = "returned"
    /\ ~(wkind = "CRD" /\ phase = 1 /\ pollResult = "nil")
    /\ wpc' = "done"
    /\ result' = pollResult
    /\ timeoutErrs' = IF wkind \in KeptTimeouts /\ pollResult = "timeout"
                      THEN timeoutErrs \cup
                              {[err |-> pollResult, kind |-> wkind, phase |-> phase]}
                      ELSE timeoutErrs
    /\ UNCHANGED <<now, target, wkind, timeout, phase, pollStart, nextTick, evals,
                   pollResult, pollEnd, secret, trueSince, ctx>>
    /\ UNCHANGED <<clusterVars, linkerdVars, giteaVars>>

\* Time passes while the poll waits for its ticker or its deadline.
Advance ==
    /\ wpc = "waiting"
    /\ now < nextTick
    /\ timeout # 0 => now < pollStart + timeout
    /\ now < MaxTime
    /\ now' = now + 1
    /\ UNCHANGED <<target, wkind, wpc, timeout, phase, pollStart, nextTick, evals,
                   pollResult, pollEnd, secret, result, trueSince, ctx, timeoutErrs>>
    /\ UNCHANGED <<clusterVars, linkerdVars, giteaVars>>

\* Another actor changes the awaited resource while the poll is running.
ClusterChanges ==
    /\ wpc \in {"immediate", "waiting"}
    /\ \E r \in Targets(wkind) \ {target} :
          /\ target' = r
          /\ trueSince' = IF Satisfied(wkind, phase, ReadWith(ctx, r))
                          THEN (IF trueSince # None THEN trueSince ELSE now)
                          ELSE None
    /\ UNCHANGED <<now, wkind, wpc, timeout, phase, pollStart, nextTick, evals,
                   pollResult, pollEnd, secret, result, ctx, timeoutErrs>>
    /\ UNCHANGED <<clusterVars, linkerdVars, giteaVars>>

\* The context of the running wait is cancelled, or its deadline passes.
CtxDone ==
    /\ wpc \in {"immediate", "waiting"}
    /\ ctx = "live"
    /\ ctx' = "done"
    /\ trueSince' = IF Satisfied(wkind, phase, ReadWith("done", target))
                    THEN (IF trueSince # None THEN trueSince ELSE now)
                    ELSE None
    /\ UNCHANGED <<now, target, wkind, wpc, timeout, phase, pollStart, nextTick,
                   evals, pollResult, pollEnd, secret, result, timeoutErrs>>
    /\ UNCHANGED <<clusterVars, linkerdVars, giteaVars>>

\* The wait has returned; its caller goes on and can call a wait again (the
\* clock of the model is read from the start of each call).
NextCall ==
    /\ wpc = "done"
    /\ now' = 0
    /\ target' = [err |-> "nil", conds |-> <<>>, items |-> 0, data |-> 0]
    /\ wkind' = "none"
    /\ wpc' = "idle"
    /\ timeout' = 0
    /\ phase' = 1
    /\ pollStart' = 0
    /\ nextTick' = 0
    /\ evals' = <<>>
    /\ pollResult' = "none"
    /\ pollEnd' = None
    /\ secret' = Nil
    /\ result' = "none"
    /\ trueSince' = None
    /\ ctx' = "live"
    /\ UNCHANGED timeoutErrs
    /\ UNCHANGED <<clusterVars, linkerdVars, giteaVars>>

\* A handle has been obtained from GetCluster; no wait has been called.
Init ==
    /\ WaitIdle
    /\ timeoutErrs = {}
    /\ LinkerdIdle
    /\ GiteaIdle
    /\ clusterMemo = 1
    /\ heap = <<[RestConfig |-> TRUE, Kubectl |-> TRUE,
                 platform |-> GenericPlatform, loaded |-> TRUE]>>
    /\ detects = [pl \in PlatformNames |-> FALSE]
    /\ pc = [p \in Procs |-> "idle"]
    /\ c = [p \in Procs |-> Nil]
    /\ log = [p \in Procs |-> <<>>]
    /\ hist = [p \in Procs |-> <<>>]
    /\ assigns = 1
    /\ ncalls = 0
    /\ overlap = FALSE

Next ==
    \/ WaitForJobDone
    \/ WaitForDeploymentCompleted
    \/ WaitForNamespaceMissing
    \/ WaitForPodBySelectorMissing
    \/ WaitForSecret
    \/ WaitForCRD
    \/ EvalImmediate
    \/ TickFire
    \/ TimerFire
    \/ WaitForCRDEstablished
    \/ ReturnFromWait
    \/ Advance
    \/ ClusterChanges
    \/ CtxDone

\* one call of a wait
Spec == Init /\ [][Next]_vars

SeqNext ==
    \/ Next
    \/ NextCall

\* calls of the waits that follow one another
SeqSpec == Init /\ [][SeqNext]_vars

\* The clock runs and the goroutines of a poll are scheduled: a condition that
\* is due is called, a ticker or timer that is due fires, the wait returns.
FairSpec ==
    /\ Spec
    /\ WF_vars(Advance)
    /\ WF_vars(EvalImmediate)
    /\ WF_vars(TickFire)
    /\ WF_vars(TimerFire)
    /\ WF_vars(WaitForCRDEstablished)
    /\ WF_vars(ReturnFromWait)

(***************************************************************************)
(* Linkerd.Delete (src/deployments/linkerd.go).  Delete is called with a   *)
(* UI, which it uses on its first line.                                    *)
(***************************************************************************)

\* errors.Wrap, errors.Wrapf (github.com/pkg/errors): nil if err is nil,
\* otherwise an error with the message
Wrap(err, message) == IF err = "nil" THEN "nil" ELSE message

\* existsAndOwned, err := c.NamespaceExistsAndOwned(LinkerdDeploymentID)
NamespaceExistsAndOwnedResults ==
    {[existsAndOwned |-> TRUE, err |-> "nil"],
     [existsAndOwned |-> FALSE, err |-> "nil"],
     [existsAndOwned |-> FALSE, err |-> "ApiErr"]}

\* Delete, lines 49-56: the namespace is checked.
NamespaceExistsAndOwned ==
    /\ lpc = "idle"
    /\ wpc = "idle"
    /\ \E r \in NamespaceExistsAndOwnedResults :
          /\ lcalls' = Append(lcalls, [call |-> "NamespaceExistsAndOwned", err |-> r.err])
          /\ IF r.err # "nil"
             THEN /\ lret' = Wrap(r.err, "failed to check if namespace is owned or not")
                  /\ lpc' = "done"
             ELSE IF ~r.existsAndOwned
             THEN /\ lret' = "nil"
                  /\ lpc' = "done"
             ELSE /\ lpc' = "apply"
                  /\ UNCHANGED lret
    /\ UNCHANGED <<clusterVars, waitVars, giteaVars>>

\* Delete, lines 59-61: the uninstall job is applied.
KubectlApplyEmbeddedYaml ==
    /\ lpc = "apply"
    /\ \E err \in {"nil", "KubectlErr"} :
          /\ lcalls' = Append(lcalls, [call |-> "KubectlApplyEmbeddedYaml", err |-> err])
          /\ IF err # "nil"
             THEN /\ lret' = Wrap(err, "Deleting failed")
                  /\ lpc' = "done"
             ELSE /\ lpc' = "wait"
                  /\ UNCHANGED lret
    /\ UNCHANGED <<clusterVars, waitVars, giteaVars>>

\* Delete, line 64: c.WaitForNamespaceMissing(ui, LinkerdDeploymentID, k.Timeout)
DeleteWaitForNamespaceMissing ==
    /\ lpc = "wait"
    /\ \E T \in 0..MaxTimeout, r0 \in Targets("NamespaceMissing") :
        /\ StartWait("NamespaceMissing", T, r0)
        /\ \E pr \in ProgressfIfUI("ui") :
              IF pr = "panic" THEN Panic
              ELSE PollImmediate(1) /\ UNCHANGED result

\* A Delete that goes on to the roles whatever the wait returned.
DeleteAfterWaitIgnoringError ==
    /\ lpc = "wait"
    /\ wpc = "done"
    /\ lcalls' = Append(lcalls, [call |-> "WaitForNamespaceMissing", err |-> result])
    /\ lpc' = "roles"
    /\ UNCHANGED lret
    /\ UNCHANGED <<clusterVars, waitVars, giteaVars>>

\* Delete, lines 64-67: the wait has returned err.
DeleteAfterWait ==
    /\ lpc = "wait"
    /\ wpc = "done"
    /\ lcalls' = Append(lcalls, [call |-> "WaitForNamespaceMissing", err |-> result])
    /\ IF result # "nil"
       THEN /\ lret' = Wrap(result, "failed to delete namespace")
            /\ lpc' = "done"
       ELSE /\ lpc' = "roles"
            /\ UNCHANGED lret
    /\ UNCHANGED <<clusterVars, waitVars, giteaVars>>

\* Delete, lines 70-76: the roles and the service account are deleted.
KubectlDeleteEmbeddedYaml ==
    /\ lpc = "roles"
    /\ \E err \in {"nil", "KubectlErr"} :
          /\ lcalls' = Append(lcalls, [call |-> "KubectlDeleteEmbeddedYaml", err |-> err])
          /\ lret' = Wrap(err, "Deleting failed")
          /\ lpc' = "done"
    /\ UNCHANGED <<clusterVars, waitVars, giteaVars>>

LinkerdNext ==
    \/ NamespaceExistsAndOwned
    \/ KubectlApplyEmbeddedYaml
    \/ DeleteWaitForNamespaceMissing
    \/ EvalImmediate
    \/ TickFire
    \/ TimerFire
    \/ ReturnFromWait
    \/ Advance
    \/ ClusterChanges
    \/ CtxDone
    \/ DeleteAfterWait
    \/ KubectlDeleteEmbeddedYaml

\* one call of Linkerd.Delete
LinkerdSpec == Init /\ [][LinkerdNext]_vars

(***************************************************************************)
(* gitea.New and getGiteaCredentials                                       *)
(* (src/internal/cli/clients/gitea/gitea.go).                              *)
(***************************************************************************)

\* the values a key of the secret can have
Values == {"", "secret"}

\* what cluster.GetSecret(TektonStagingNamespace, GiteaCredentialsSecret)
\* can answer: an error, or the secret with its Data
GiteaSecrets ==
    {[err |-> "ApiErr", Data |-> NoData]} \cup
    {[err |-> "nil", Data |-> [username |-> u, password |-> pw]] :
        u \in Values \cup {Absent}, pw \in Values \cup {Absent}}

\* v, ok := Data[key]
Lookup(Data, key) ==
    [v |-> IF Data[key] = Absent THEN "" ELSE Data[key], ok |-> Data[key] # Absent]

\* getGiteaCredentials, lines 140-157; err is the error of GetSecret, nil
\* where the keys are looked up
getGiteaCredentials(sec) ==
    LET err == sec.err
        username == Lookup(sec.Data, "username")
        password == Lookup(sec.Data, "password")
    IN  IF err # "nil"
        THEN [username |-> "", password |-> "",
              err |-> Wrap(err, "failed to read gitea credentials")]
        ELSE IF ~username.ok
        THEN [username |-> "", password |-> "",
              err |-> Wrap(err, "username key not found in gitea credentials secret")]
        ELSE IF ~password.ok
        THEN [username |-> "", password |-> "",
              err |-> Wrap(err, "password key not found in gitea credentials secret")]
        ELSE [username |-> username.v, password |-> password.v, err |-> "nil"]

NoCreds == [username |-> "", password |-> "", err |-> "none"]

\* return nil, err
NewReturnError(err) ==
    /\ gret' = [client |-> Nil, err |-> err]
    /\ gpc' = "done"

\* New, lines 33-35: the memo is set.
NewMemoHit ==
    /\ gpc = "idle"
    /\ gcalls < MaxCalls
    /\ clientMemo # Nil
    /\ gcalls' = gcalls + 1
    /\ creds' = NoCreds
    /\ gret' = [client |-> clientMemo, err |-> "nil"]
    /\ gpc' = "done"
    /\ UNCHANGED <<clientMemo, clients, s, builtFrom>>
    /\ UNCHANGED <<clusterVars, waitVars, linkerdVars>>

\* New, lines 33-40: the memo is nil; config.Load()
NewConfigLoad ==
    /\ gpc = "idle"
    /\ gcalls < MaxCalls
    /\ clientMemo = Nil
    /\ gcalls' = gcalls + 1
    /\ creds' = NoCreds
    /\ \E err \in {"nil", "ConfigErr"} :
          IF err # "nil" THEN NewReturnError(err)
          ELSE gpc' = "cluster" /\ gret' = [client |-> Nil, err |-> "none"]
    /\ UNCHANGED <<clientMemo, clients, s, builtFrom>>
    /\ UNCHANGED <<clusterVars, waitVars, linkerdVars>>

\* New, lines 42-45: kubernetes.GetCluster()
NewGetCluster ==
    /\ gpc = "cluster"
    /\ \E err \in {"nil", "ClusterErr"} :
          IF err # "nil" THEN NewReturnError(err)
          ELSE gpc' = "domain" /\ UNCHANGED gret
    /\ UNCHANGED <<clientMemo, clients, s, creds, gcalls, builtFrom>>
    /\ UNCHANGED <<clusterVars, waitVars, linkerdVars>>

\* New, lines 47-50: getMainDomain(cluster)
NewGetMainDomain ==
    /\ gpc = "domain"
    /\ \E err \in {"nil", "IngressErr"} :
          IF err # "nil"
          THEN NewReturnError(Wrap(err, "failed to determine epinio domain"))
          ELSE gpc' = "url" /\ UNCHANGED gret
    /\ UNCHANGED <<clientMemo, clients, s, creds, gcalls, builtFrom>>
    /\ UNCHANGED <<clusterVars, waitVars, linkerdVars>>

\* New, lines 52-55: getGiteaURL(configConfig, cluster)
NewGetGiteaURL ==
    /\ gpc = "url"
    /\ \E err \in {"nil", "IngressErr"} :
          IF err # "nil"
          THEN NewReturnError(Wrap(err, "failed to resolve gitea host"))
          ELSE gpc' = "creds" /\ UNCHANGED gret
    /\ UNCHANGED <<clientMemo, clients, s, creds, gcalls, builtFrom>>
    /\ UNCHANGED <<clusterVars, waitVars, linkerdVars>>

\* New, lines 57-60: username, password, err := getGiteaCredentials(cluster)
NewGetGiteaCredentials ==
    /\ gpc = "creds"
    /\ creds' = getGiteaCredentials(s)
    /\ IF creds'.err # "nil"
       THEN NewReturnError(Wrap(creds'.err, "failed to resolve gitea credentials"))
       ELSE gpc' = "client" /\ UNCHANGED gret
    /\ UNCHANGED <<clientMemo, clients, s, gcalls, builtFrom>>
    /\ UNCHANGED <<clusterVars, waitVars, linkerdVars>>

\* New, lines 62-78: the client is built, memoized and returned.
NewClient ==
    /\ gpc = "client"
    /\ \E err \in {"nil", "ClientErr"} :
          IF err # "nil"
          THEN /\ NewReturnError(Wrap(err, "gitea client failed"))
               /\ UNCHANGED <<clientMemo, clients, builtFrom>>
          ELSE /\ clients' = Append(clients,
                                    [Client |-> TRUE, Domain |-> TRUE, URL |-> TRUE,
                                     Username |-> creds.username,
                                     Password |-> creds.password])
               /\ builtFrom' = Append(builtFrom, s.Data)
               /\ clientMemo' = Len(clients) + 1
               /\ gret' = [client |-> Len(clients) + 1, err |-> "nil"]
               /\ gpc' = "done"
    /\ UNCHANGED <<s, creds, gcalls>>
    /\ UNCHANGED <<clusterVars, waitVars, linkerdVars>>

\* New has returned; its caller goes on.
NewReturned ==
    /\ gpc = "done"
    /\ gpc' = "idle"
    /\ UNCHANGED <<clientMemo, clients, s, creds, gret, gcalls, builtFrom>>
    /\ UNCHANGED <<clusterVars, waitVars, linkerdVars>>

\* Between two calls of New the gitea-creds secret is created, changed or
\* deleted, or the API server stops or starts answering.
SecretChanges ==
    /\ gpc = "idle"
    /\ \E r \in GiteaSecrets \ {s} : s' = r
    /\ UNCHANGED <<clientMemo, clients, gpc, creds, gret, gcalls, builtFrom>>
    /\ UNCHANGED <<clusterVars, waitVars, linkerdVars>>

GiteaNext ==
    \/ NewMemoHit
    \/ NewConfigLoad
    \/ NewGetCluster
    \/ NewGetMainDomain
    \/ NewGetGiteaURL
    \/ NewGetGiteaCredentials
    \/ NewClient
    \/ NewReturned
    \/ SecretChanges

\* calls of gitea.New that follow one another
GiteaSpec == Init /\ [][GiteaNext]_vars

(***************************************************************************)
(* Properties of GetCluster, checked under ClusterSpec.                    *)
(***************************************************************************)
Calls == {k \in Procs \X (1..MaxCalls) : k[2] <= Len(hist[k[1]])}

Rec(k) == hist[k[1]][k[2]]

Succeeded == {k \in Calls : Rec(k).err = "none"}

CountOp(lg, op) == Cardinality({i \in 1..Len(lg) : lg[i].op = op})

\* the platforms probed by the Detect entries of a log, in order
RECURSIVE Probed(_)
Probed(lg) ==
    IF lg = <<>> THEN <<>>
    ELSE IF Head(lg).op = "Detect"
         THEN <<Head(lg).platform>> \o Probed(Tail(lg))
         ELSE Probed(Tail(lg))

\* a call that ran the whole initialization once: one configuration read, one
\* client construction, one detection run, one Load, all successful
FullInit(lg) ==
    /\ CountOp(lg, "KubeConfig") = 1
    /\ CountOp(lg, "NewForConfig") = 1
    /\ CountOp(lg, "Load") = 1
    /\ Probed(lg) = detectPlatform(detects).probed
    /\ lg[1].op = "KubeConfig" /\ lg[1].ok
    /\ lg[2].op = "NewForConfig" /\ lg[2].ok
    /\ lg[Len(lg)].op = "Load"

PastDetection == {p \in Procs : pc[p] \in {"load", "memoize", "return"}}

\* C5: when GetCluster calls follow one another (no two initializations in
\* progress at once), every successful call returns the one handle held in the
\* memo, with the platform it had when it was returned; exactly one of the
\* successful calls (the one that initialized, which may still be about to
\* return) read the configuration, ran detection and ran Load, once each, and
\* the others called no collaborator at all.
C5_SequentialCallsShareHandle ==
    ~overlap =>
        /\ assigns <= 1
        /\ \A k \in Succeeded :
              /\ Rec(k).ret = clusterMemo
              /\ Rec(k).platform = heap[clusterMemo].platform
              /\ IF Rec(k).hit THEN Rec(k).log = <<>> ELSE FullInit(Rec(k).log)
        /\ Succeeded # {} =>
              Cardinality({k \in Succeeded : ~Rec(k).hit})
                  + Cardinality({p \in Procs : pc[p] = "return"}) = 1

C5_Witness ==
    /\ ~overlap
    /\ \E p \in Procs :
          /\ Len(hist[p]) >= 2
          /\ hist[p][1].err = "none" /\ ~hist[p][1].hit
          /\ hist[p][2].err = "none" /\ hist[p][2].hit
          /\ hist[p][2].ret = hist[p][1].ret

\* C6: clusterMemo is assigned at most once, and every caller that returned
\* successfully holds the handle that is in the memo.
C6_OneInitializationWins ==
    /\ assigns <= 1
    /\ \A k \in Succeeded : Rec(k).ret = clusterMemo

\* C7: as long as no call has initialized successfully, the memo is empty and
\* was never assigned, whatever calls have failed; a call that finds the memo
\* empty starts over with the configuration read, and when it succeeds it has
\* run the whole initialization; a memo hit after a failed call is always due
\* to a successful initialization, never to the failed one.
C7_FailureIsNotCached ==
    /\ ((\A k \in Calls : Rec(k).err # "none" \/ Rec(k).hit) /\ (\A p \in Procs : pc[p] # "return"))
          => (clusterMemo = Nil /\ assigns = 0)
    /\ \A k \in Calls :
          /\ (~Rec(k).hit) => (Rec(k).log[1].op = "KubeConfig")
          /\ (~Rec(k).hit /\ Rec(k).err = "none") => FullInit(Rec(k).log)
          /\ Rec(k).err # "none" => Rec(k).ret = Nil

C7_Witness ==
    \E p \in Procs :
        /\ Len(hist[p]) >= 2
        /\ hist[p][1].err = "load"
        /\ hist[p][2].err = "none" /\ ~hist[p][2].hit
        /\ hist[p][2].ret = clusterMemo

\* C8: the Detect probes of a detection run are a prefix of SupportedPlatforms
\* in list order; when a supported platform is selected it is the last one
\* probed, its probe answered true and every probe before it answered false.
C8_FirstMatchWins ==
    \A p \in PastDetection :
        LET probed == Probed(log[p])
            sel == heap[c[p]].platform
        IN /\ \E n \in 1..Len(SupportedPlatforms) : probed = SubSeq(SupportedPlatforms, 1, n)
           /\ sel \in PlatformNames =>
                /\ detects[sel]
                /\ probed[Len(probed)] = sel
                /\ \A j \in 1..(Len(probed) - 1) : ~detects[probed[j]]

C8_Witness ==
    \E p \in PastDetection :
        /\ heap[c[p]].platform = "k3s"
        /\ detects["ibm"] /\ detects["minikube"]
        /\ Probed(log[p]) = <<"kind", "k3s">>

\* C9: when no probe answers true, every probe was made exactly once and the
\* handle's platform is the generic one; no call fails for any reason other
\* than the configuration read, the client construction or Load; a handle
\* returned by GetCluster has a platform.
C9_GenericFallback ==
    /\ \A p \in PastDetection :
          /\ heap[c[p]].platform # NilPlatform
          /\ (\A pl \in PlatformNames : ~detects[pl]) =>
                /\ Probed(log[p]) = SupportedPlatforms
                /\ heap[c[p]].platform = GenericPlatform
    /\ \A k \in Calls :
          /\ Rec(k).err \in {"none", "config", "client", "load"}
          /\ Rec(k).err = "none" =>
                /\ Rec(k).platform # NilPlatform
                /\ heap[Rec(k).ret].platform # NilPlatform

C9_Witness ==
    /\ \A pl \in PlatformNames : ~detects[pl]
    /\ \E k \in Succeeded :
          /\ ~Rec(k).hit
          /\ Rec(k).platform = GenericPlatform
          /\ Probed(Rec(k).log) = SupportedPlatforms

\* C10: a call invokes Load at most once, as its last collaborator call, after
\* the detection run, on the platform stored in its handle; a call goes on to
\* memoize only after a successful Load, and a call whose Load failed returns
\* the Load error and no handle.
C10_LoadOnceOnSelected ==
    /\ \A p \in Procs :
          /\ CountOp(log[p], "Load") <= 1
          /\ pc[p] \in {"memoize", "return"} =>
                LET e == log[p][Len(log[p])]
                IN /\ e.op = "Load" /\ e.ok
                   /\ e.platform = heap[c[p]].platform
                   /\ e.platform = platformOrGeneric(detectPlatform(detects).platform)
                   /\ CountOp(log[p], "Load") = 1
                   /\ CountOp(log[p], "Detect") >= 1
    /\ \A k \in Calls :
          LET lg == Rec(k).log
          IN \A i \in 1..Len(lg) :
                lg[i].op = "Load" =>
                    /\ i = Len(lg)
                    /\ lg[i].platform = platformOrGeneric(detectPlatform(detects).platform)
                    /\ lg[i].ok <=> Rec(k).err = "none"
                    /\ ~lg[i].ok => (Rec(k).err = "load" /\ Rec(k).ret = Nil)

C10_Witness ==
    \E k \in Calls :
        /\ Rec(k).err = "load"
        /\ Rec(k).ret = Nil
        /\ CountOp(Rec(k).log, "Load") = 1
        /\ clusterMemo = Nil

\* the Cluster at address a is fully initialized
FullyInitialized(a) ==
    /\ a \in 1..Len(heap)
    /\ heap[a].RestConfig
    /\ heap[a].Kubectl
    /\ heap[a].platform # NilPlatform
    /\ heap[a].loaded

\* C26: in every state, with calls that succeed, fail and overlap, the memo
\* is nil or the address of a Cluster whose RestConfig and Kubectl are set,
\* whose platform is not nil and whose platform's Load has succeeded; every
\* call that returned a handle returned such a Cluster, and every call that
\* returned an error returned nil; a Cluster under construction is not in
\* the memo before its Load has succeeded.
C26_MemoNeverPartial ==
    /\ clusterMemo = Nil \/ FullyInitialized(clusterMemo)
    /\ \A k \in Calls :
          IF Rec(k).err = "none" THEN FullyInitialized(Rec(k).ret)
          ELSE Rec(k).ret = Nil
    /\ \A p \in Procs :
          pc[p] \in {"config", "client", "detect", "load"} =>
              (c[p] # clusterMemo /\ ~FullyInitialized(c[p]))

C26_Witness ==
    /\ FullyInitialized(clusterMemo)
    /\ \E k \in Calls : Rec(k).err = "load"
    /\ \E k \in Calls : Rec(k).err = "none" /\ Rec(k).ret = clusterMemo
    /\ \E a \in 1..Len(heap) : ~FullyInitialized(a)

(***************************************************************************)
(* Properties of the waits, checked under Spec (C3 under FairSpec).        *)
(***************************************************************************)
\* the running or last poll has returned
PollEnded == wpc \in {"returned", "done"} /\ pollResult # "none"

\* no call of the condition made by the poll was satisfied or failed
NeverTrueNeverError ==
    \A i \in 1..Len(evals) : ~evals[i].done /\ evals[i].err = "nil"

\* C1: in every poll (of every wait, and of each of the two polls of
\* WaitForCRD) no time passes before the first call of the condition, which
\* is made at the moment wait.PollImmediate is called; when that first call
\* is satisfied, the poll returns nil at that same moment, after that single
\* call, and the wait returns nil or goes on to its next poll.
C1_FirstCallImmediate ==
    /\ wpc = "immediate" => (now = pollStart /\ evals = <<>>)
    /\ wpc = "waiting" => evals # <<>>
    /\ evals # <<>> =>
          /\ evals[1].at = pollStart
          /\ (evals[1].done /\ evals[1].err = "nil") =>
                /\ Len(evals) = 1
                /\ PollEnded
                /\ pollResult = "nil"
                /\ pollEnd = pollStart
                /\ now = pollStart
                /\ wpc = "done" => result = "nil"

C1_Witness ==
    /\ wkind = "CRD" /\ phase = 2
    /\ wpc = "done" /\ result = "nil"
    /\ timeout > 0
    /\ pollStart > 0
    /\ Len(evals) = 1
    /\ pollEnd = pollStart

\* C2: a call of the condition that returns an error is the last call of its
\* poll, whichever call it is: the poll returns at that moment, with that
\* error, and the wait returns that error.
C2_HardErrorEndsPoll ==
    \A i \in 1..Len(evals) :
        evals[i].err # "nil" =>
            /\ i = Len(evals)
            /\ PollEnded
            /\ pollResult = evals[i].err
            /\ pollEnd = evals[i].at
            /\ now = evals[i].at
            /\ wpc = "done" => result = evals[i].err

C2_Witness ==
    /\ wkind = "NamespaceMissing"
    /\ wpc = "done" /\ result = "ApiErr"
    /\ Len(evals) >= 2
    /\ timeout > 0
    /\ pollEnd < pollStart + timeout

\* C3, as claimed: with a positive timeout T and a condition that is never
\* satisfied and never fails, the poll returns the timeout error within one
\* interval of T, any two consecutive calls of the condition are at least
\* one interval apart, and there are at most T/interval + 1 calls.
C3_IntervalBetweenAllCalls ==
    (timeout > 0 /\ PollEnded /\ evals # <<>> /\ NeverTrueNeverError) =>
        /\ pollResult = "timeout"
        /\ pollEnd - pollStart >= timeout - Interval
        /\ pollEnd - pollStart <= timeout + Interval
        /\ \A i \in 2..Len(evals) : evals[i].at - evals[i - 1].at >= Interval
        /\ (Len(evals) - 1) * Interval <= timeout

\* the bounds of C3 that the polls keep
C3_TimeoutBounds ==
    /\ (timeout > 0 /\ wpc \in {"immediate", "waiting"}) => now <= pollStart + timeout
    /\ (timeout > 0 /\ PollEnded /\ evals # <<>> /\ NeverTrueNeverError) =>
          /\ pollResult = "timeout"
          /\ pollEnd = pollStart + timeout
          /\ evals[Len(evals)].at = pollStart + timeout
          /\ \A i \in 2..(Len(evals) - 1) : evals[i].at - evals[i - 1].at >= Interval
          /\ (Len(evals) - 2) * Interval <= timeout

\* C3, amended: a poll with a positive timeout T always returns; when the
\* condition was never satisfied and never failed it returns the timeout
\* error at T, after a last call of the condition made at T; every call but
\* that last one is at least one interval after the call before it, and
\* there are at most T/interval + 2 calls.
C3_TimeoutTerminates ==
    /\ []C3_TimeoutBounds
    /\ (wpc = "immediate" /\ timeout > 0) ~> PollEnded

C3_Witness ==
    /\ wpc = "done" /\ result = "timeout"
    /\ timeout = 2 * Interval
    /\ Len(evals) = 4
    /\ evals[4].at = evals[3].at

\* C4: a poll with a positive timeout T is never still running after T; when
\* a poll has returned and the condition then holds (it became true at some
\* moment of the poll and stayed true), the poll returned nil, not the
\* timeout error, and with a positive T it did so no later than T + interval
\* after it started.  (The cluster is looked at up to the moment the poll
\* returns.)
C4_TrueWithinTimeoutSucceeds ==
    /\ (timeout > 0 /\ wpc \in {"immediate", "waiting"}) => now <= pollStart + timeout
    /\ (PollEnded /\ trueSince # None) =>
          /\ pollResult = "nil"
          /\ timeout > 0 => pollEnd - pollStart <= timeout + Interval
    /\ (PollEnded /\ pollResult = "timeout") => trueSince = None

C4_Witness ==
    /\ wpc = "done" /\ result = "nil"
    /\ timeout > 0
    /\ Len(evals) >= 2
    /\ pollEnd = pollStart + timeout
    /\ evals[Len(evals) - 1].at < trueSince
    /\ trueSince <= pollEnd

(***************************************************************************)
(* Properties of WaitForCRD and of the condition functions.                *)
(***************************************************************************)
\* every read of the awaited resource made by the poll answered e
EveryRead(e) == \A i \in 1..Len(evals) : evals[i].read = e

\* the number of calls of the condition function of the second poll of
\* WaitForCRD (lines 250-262) made by the wait
EstablishedCalls == IF wkind = "CRD" /\ phase = 2 THEN Len(evals) ELSE 0

\* the first poll of WaitForCRD has returned something other than nil
CRDFirstPollFailed ==
    wkind = "CRD" /\ phase = 1 /\ PollEnded /\ pollResult # "nil"

\* what WaitForCRD has returned, and with how many calls of the second
\* condition function, when its first poll did not return nil
C11_NoSecondPollAfterFailure ==
    /\ (wkind = "CRD" /\ phase = 1) => EstablishedCalls = 0
    /\ (CRDFirstPollFailed /\ EveryRead("NotFound")) => pollResult = "timeout"
    /\ (CRDFirstPollFailed /\ evals # <<>> /\ evals[Len(evals)].err # "nil") =>
          pollResult = evals[Len(evals)].err
    /\ (wkind = "CRD" /\ phase = 1 /\ wpc = "done" /\ evals # <<>>) =>
          (result = pollResult /\ result # "nil")

\* C11: when every read of the first poll of WaitForCRD answers "not found"
\* and that poll returns, it returns the timeout error and WaitForCRD returns
\* that error; when a call of its condition returns an error, WaitForCRD
\* returns that error; in both cases the second poll is not started and its
\* condition function is never called: the second poll starts only after the
\* first one returned nil.
C11_ExistenceFailureSkipsEstablishment ==
    /\ []C11_NoSecondPollAfterFailure
    /\ [][/\ (CRDFirstPollFailed => phase' = 1 /\ EstablishedCalls' = 0)
          /\ (CRDFirstPollFailed /\ wpc' = "done") => result' = pollResult
          /\ (phase = 1 /\ phase' = 2) => (wkind = "CRD" /\ pollResult = "nil")]_vars

C11_Witness ==
    /\ wkind = "CRD" /\ phase = 1
    /\ wpc = "done" /\ result = "timeout"
    /\ Len(evals) >= 3
    /\ EveryRead("NotFound")
    /\ EstablishedCalls = 0

\* C12: in the first poll of WaitForCRD a read that answers "not found" is
\* "not yet": the condition returns (false, nil) and the poll goes on (or
\* times out at its deadline); in the second poll such a read is an error
\* that ends the poll and WaitForCRD at once, with that error; and once the
\* second poll has started the wait never returns to the first (until it has
\* returned to its caller).
C12_NotFoundByPhase ==
    /\ [](wkind = "CRD" =>
            \A i \in 1..Len(evals) :
                evals[i].read = "NotFound" =>
                    /\ phase = 1 =>
                          /\ ~evals[i].done /\ evals[i].err = "nil"
                          /\ \/ i < Len(evals)
                             \/ wpc = "waiting"
                             \/ PollEnded /\ pollResult = "timeout"
                                  /\ pollEnd = pollStart + timeout
                    /\ phase = 2 =>
                          /\ evals[i].err = "NotFound"
                          /\ i = Len(evals)
                          /\ PollEnded /\ pollResult = "NotFound"
                          /\ pollEnd = evals[i].at /\ now = evals[i].at
                          /\ wpc = "done" => result = "NotFound")
    /\ [][(phase = 2 /\ wpc # "done") => phase' = 2]_vars

C12_Witness ==
    /\ wkind = "CRD" /\ phase = 2
    /\ wpc = "done" /\ result = "NotFound"
    /\ Len(evals) >= 2
    /\ timeout > 0 /\ pollEnd < pollStart + timeout

\* C13, as claimed: the timeout error WaitForCRD returns tells which of its
\* two polls timed out: no error is returned both for a timeout of the first
\* poll and for a timeout of the second.
C13_TimeoutErrorNamesPhase ==
    \A a, b \in timeoutErrs :
        (a.kind = "CRD" /\ b.kind = "CRD" /\ a.err = b.err) => a.phase = b.phase

\* this step is a call of the condition function by the running poll
ConditionCalled == Len(evals') = Len(evals) + 1

\* some condition of the list has one of the types and the status
HasCondition(conds, types, status) ==
    \E i \in DOMAIN conds : conds[i].type \in types /\ conds[i].status = status

\* C14: a call of IsJobDone that reads the job returns (true, nil) exactly
\* when some condition of the job has status True and type Complete or
\* Failed, and (false, nil) otherwise; WaitForJobDone returns nil at the first
\* call that finds such a condition and goes on polling after a call that
\* finds none.
C14_JobDoneIffCompleteOrFailed ==
    [][(ConditionCalled /\ wkind = "JobDone" /\ ctx = "live" /\ target.err = "nil") =>
          LET e == evals'[Len(evals')]
              finished == HasCondition(target.conds, {"Complete", "Failed"}, "True")
          IN /\ e.err = "nil"
             /\ e.done <=> finished
             /\ finished => (PollEnded' /\ pollResult' = "nil")
             /\ ~finished => (wpc' = "waiting" \/ (PollEnded' /\ pollResult' = "timeout"))
      ]_vars

C14_Witness ==
    /\ wkind = "JobDone"
    /\ wpc = "done" /\ result = "nil"
    /\ Len(evals) >= 2
    /\ target.err = "nil"
    /\ HasCondition(target.conds, {"Failed"}, "True")
    /\ ~HasCondition(target.conds, {"Complete"}, "True")
    /\ HasCondition(target.conds, {"Suspended"}, "True")

\* the poll goes on after this call, or this was the call made at the deadline
GoesOnAfter == wpc' = "waiting" \/ (PollEnded' /\ pollResult' = "timeout")

\* the poll returns res at this call
ReturnsAfter(res) == PollEnded' /\ pollResult' = res /\ pollEnd' = now

\* C15: a call of NamespaceDoesNotExist returns (false, nil) when the read
\* finds the namespace and (true, nil) when the read answers "not found", so
\* that WaitForNamespaceMissing returns nil at the first call made after the
\* namespace is gone; a read that fails in any other way makes the wait
\* return that error; the wait returns nil only after a "not found" read.
C15_NamespaceMissing ==
    /\ [][(ConditionCalled /\ wkind = "NamespaceMissing") =>
            LET e == evals'[Len(evals')]
                rd == ReadWith(ctx, target)
            IN /\ rd.err = "nil" => (~e.done /\ e.err = "nil" /\ GoesOnAfter)
               /\ rd.err = "NotFound" => (e.done /\ e.err = "nil" /\ ReturnsAfter("nil"))
               /\ rd.err \notin {"nil", "NotFound"} =>
                     (e.err = rd.err /\ ReturnsAfter(rd.err))
         ]_vars
    /\ []((wkind = "NamespaceMissing" /\ PollEnded) =>
            /\ pollResult = "nil" <=> evals[Len(evals)].read = "NotFound"
            /\ \A i \in 1..(Len(evals) - 1) : evals[i].read = "nil"
            /\ wpc = "done" => result = pollResult)
    /\ []((wkind = "NamespaceMissing" /\ wpc = "waiting") => now <= nextTick)

C15_Witness ==
    /\ wkind = "NamespaceMissing"
    /\ wpc = "done" /\ result = "nil"
    /\ Len(evals) >= 2
    /\ evals[1].read = "nil"
    /\ evals[Len(evals)].read = "NotFound"
    /\ pollEnd < pollStart + timeout

C17_Secret ==
    /\ [][(ConditionCalled /\ wkind = "Secret") =>
            LET e == evals'[Len(evals')]
                rd == ReadWith(ctx, target)
            IN /\ rd.err = "NotFound" => (~e.done /\ e.err = "nil" /\ GoesOnAfter)
               /\ rd.err \notin {"nil", "NotFound"} =>
                     (e.err = rd.err /\ ReturnsAfter(rd.err))
               /\ rd.err = "nil" =>
                     (e.done /\ e.err = "nil" /\ ReturnsAfter("nil") /\ secret' = rd.data)
         ]_vars
    /\ []((wkind = "Secret" /\ PollEnded) =>
            /\ \A i \in 1..(Len(evals) - 1) : evals[i].read = "NotFound"
            /\ pollResult = "nil" =>
                  (evals[Len(evals)].read = "nil" /\ secret = target.data /\ secret # Nil)
            /\ wpc = "done" => result = pollResult)

C17_Witness ==
    /\ wkind = "Secret"
    /\ wpc = "done" /\ result = "nil"
    /\ Len(evals) >= 2
    /\ evals[1].read = "NotFound"
    /\ secret = MaxSecrets

\* C18: a call of IsDeploymentCompleted that reads the deployment returns
\* (true, nil) exactly when some condition of the deployment has type
\* Available and status True, and (false, nil) otherwise.
C18_DeploymentAvailable ==
    [][(ConditionCalled /\ wkind = "DeploymentCompleted" /\ ctx = "live"
            /\ target.err = "nil") =>
          LET e == evals'[Len(evals')]
              available == HasCondition(target.conds, {"Available"}, "True")
          IN /\ e.err = "nil"
             /\ e.done <=> available
             /\ available => ReturnsAfter("nil")
             /\ ~available => GoesOnAfter
      ]_vars

C18_Witness ==
    /\ wkind = "DeploymentCompleted"
    /\ wpc = "done" /\ result = "nil"
    /\ Len(evals) >= 2
    /\ HasCondition(target.conds, {"Available"}, "True")
    /\ HasCondition(target.conds, {"Progressing"}, "False")
    /\ HasCondition(target.conds, {"ReplicaFailure"}, "True")

\* C19: once the context of a wait is done, the next call of the condition
\* is the last: its read fails with the context's error and the poll returns
\* at that call (that error, or nil from WaitForPodBySelectorMissing, whose
\* condition takes a failed List as "no pod"), never going on to a later
\* call or to the timeout error; that call is due no later than one interval
\* after the call before it and no later than the deadline of the poll.
C19_ContextEndsWait ==
    /\ \A i \in 1..Len(evals) :
          evals[i].ctx = "done" =>
              /\ i = Len(evals)
              /\ evals[i].read = "CtxErr"
              /\ PollEnded
              /\ pollEnd = evals[i].at /\ now = evals[i].at
              /\ pollResult = IF wkind = "PodBySelectorMissing" THEN "nil" ELSE "CtxErr"
              /\ wpc = "done" => result = pollResult
    /\ (ctx = "done" /\ wpc = "immediate") => now = pollStart
    /\ (ctx = "done" /\ wpc = "waiting") =>
          /\ now <= nextTick
          /\ nextTick <= evals[Len(evals)].at + Interval
          /\ timeout > 0 => now <= pollStart + timeout

C19_Witness ==
    /\ wkind = "JobDone"
    /\ wpc = "done" /\ result = "CtxErr"
    /\ ctx = "done"
    /\ Len(evals) >= 2
    /\ timeout > 0 /\ pollEnd < pollStart + timeout

\* C20, as claimed: a wait called with timeout 0 calls its condition once
\* and returns after that call, whatever the call answered.
C20_TimeoutZeroPollsOnce ==
    (wkind # "none" /\ timeout = 0 /\ evals # <<>>) => (Len(evals) = 1 /\ PollEnded)

(***************************************************************************)
(* Properties of what the waits return and of what they touch.             *)
(***************************************************************************)
\* the errors a call of a condition function can return
HardErrors == {"NotFound", "ApiErr", "CtxErr"}

\* C21, as claimed: the error a wait returns when its deadline passes is
\* neither nil nor an error of the condition function, and it says which
\* condition was waited for: no error is returned both for a timeout of one
\* wait and for a timeout of another.
C21_TimeoutErrorNamesWait ==
    /\ (wpc = "done" /\ result = "timeout") =>
          (NeverTrueNeverError /\ result \notin HardErrors \cup {"nil", "ConfigErr"})
    /\ \A a, b \in timeoutErrs : a.err = b.err => a.kind = b.kind

\* this step is a step of the running wait itself: a call of its condition,
\* the passing of time, the return of a poll or of the wait
WaitStep ==
    /\ wpc # "idle" /\ wpc' # "idle"
    /\ evals' # evals \/ wpc' # wpc \/ now' # now

\* C22: every operation a wait issues on the cluster is a Get or a List,
\* and no step of a wait, whatever the wait and its outcome, changes what
\* the cluster answers or the memoized handle.
C22_WaitsOnlyRead ==
    /\ [](\A i \in 1..Len(evals) : evals[i].op \in {"get", "list"})
    /\ [][WaitStep => (target' = target /\ clusterMemo' = clusterMemo /\ heap' = heap)]_vars

C22_Witness ==
    /\ wkind = "PodBySelectorMissing"
    /\ wpc = "done" /\ result = "timeout"
    /\ Len(evals) >= 3
    /\ evals[1].op = "list"
    /\ target.items > 0
    /\ clusterMemo = 1 /\ heap[clusterMemo].loaded

\* the waits that take a progress UI
UIWaits == {"DeploymentCompleted", "NamespaceMissing", "CRD"}

\* C23, as claimed: a wait that takes a progress UI does the same with the
\* UI absent (nil) as with a UI: once its client is built it calls its
\* condition and returns what its poll returned.
C23_UIDoesNotAffectWait ==
    (wkind \in UIWaits /\ wpc = "done" /\ result # "ConfigErr") =>
        (evals # <<>> /\ result = pollResult)

\* C24: a call of IsJobDone or IsDeploymentCompleted whose read fails
\* returns the error of the read, "not found" included, and the poll returns
\* it at that call; WaitForJobDone and WaitForDeploymentCompleted called for
\* a resource that does not exist return "not found" at their first call of
\* the condition, without waiting.
C24_ReadFailureIsHardError ==
    /\ [][(ConditionCalled /\ wkind \in {"JobDone", "DeploymentCompleted"}) =>
            LET e == evals'[Len(evals')]
                rd == ReadWith(ctx, target)
            IN rd.err # "nil" => (~e.done /\ e.err = rd.err /\ ReturnsAfter(rd.err))
         ]_vars
    /\ []((wkind \in {"JobDone", "DeploymentCompleted"} /\ evals # <<>>
              /\ evals[1].read = "NotFound") =>
            /\ Len(evals) = 1
            /\ PollEnded /\ pollResult = "NotFound"
            /\ pollEnd = pollStart /\ now = pollStart
            /\ wpc = "done" => result = "NotFound")

C24_Witness ==
    /\ wkind = "JobDone"
    /\ wpc = "done" /\ result = "NotFound"
    /\ timeout > 0
    /\ Len(evals) = 1
    /\ now = 0

\* what holds of the two polls of a WaitForCRD with a positive timeout
C25_Budgets ==
    (wkind = "CRD" /\ timeout > 0) =>
        /\ (phase = 1 /\ wpc # "done") => now <= timeout
        /\ phase = 2 =>
              /\ pollStart <= timeout
              /\ now <= pollStart + timeout
              /\ (PollEnded /\ pollResult = "timeout") => pollEnd = pollStart + timeout
        /\ now <= 2 * timeout

\* C25: WaitForCRD goes from its first poll (existence) to its second
\* (established) and from there to its return, never back; the second poll
\* starts when the first has returned nil and has the whole timeout of its
\* own from that moment, however long the first poll took, so the wait lasts
\* at most twice the timeout; it returns nil only after a call of the second
\* condition that read the CRD with an Established condition of status True.
C25_TwoPhasesTwoBudgets ==
    /\ []C25_Budgets
    /\ []((wkind = "CRD" /\ wpc = "done" /\ result = "nil") =>
            /\ phase = 2
            /\ evals[Len(evals)].done /\ evals[Len(evals)].read = "nil"
            /\ HasCondition(target.conds, {"Established"}, "True"))
    /\ [][phase' # phase =>
            /\ wkind = "CRD" /\ phase = 1 /\ phase' = 2
            /\ pollResult = "nil"
            /\ pollStart' = now /\ timeout' = timeout /\ wpc' = "immediate"
         ]_vars
    /\ [][(wkind = "CRD" /\ wpc' = "done") =>
            (wpc = "idle" \/ phase = 2 \/ pollResult # "nil")]_vars

C25_Witness ==
    /\ wkind = "CRD" /\ phase = 2
    /\ wpc = "done" /\ result = "nil"
    /\ timeout = MaxTimeout
    /\ pollStart = timeout
    /\ pollEnd = 2 * timeout

(***************************************************************************)
(* Properties of Linkerd.Delete, checked under LinkerdSpec.                *)
(***************************************************************************)

\* the names of the calls Delete has made, in order
CallNames == [i \in 1..Len(lcalls) |-> lcalls[i].call]

DeleteSteps == <<"NamespaceExistsAndOwned", "KubectlApplyEmbeddedYaml",
                 "WaitForNamespaceMissing", "KubectlDeleteEmbeddedYaml">>

\* Delete has called the named function
Called(name) == \E i \in 1..Len(lcalls) : lcalls[i].call = name

\* the error the named call returned
ErrOf(name) == (CHOOSE r \in {lcalls[i] : i \in 1..Len(lcalls)} : r.call = name).err

\* C27: Delete makes its calls in the order check, apply, wait, delete and
\* makes no call after one that failed; a Delete that has returned nil made
\* either the check alone (namespace missing or not owned: nothing applied)
\* or all four calls without error, and returned an error otherwise; the
\* wait is called only after the job was applied without error; the roles
\* are deleted only after the wait has returned nil (and a call of the
\* condition said the namespace is gone); after a wait that timed out or
\* failed the roles are not deleted and Delete returns an error.
C27_DeleteInOrderStopsAtFailure ==
    /\ CallNames = SubSeq(DeleteSteps, 1, Len(lcalls))
    /\ \A i \in 1..Len(lcalls) : lcalls[i].err # "nil" => i = Len(lcalls) /\ lpc = "done"
    /\ lpc = "done" =>
          /\ lret # "none"
          /\ (lret = "nil") <=> /\ \A i \in 1..Len(lcalls) : lcalls[i].err = "nil"
                                /\ Len(lcalls) \in {1, Len(DeleteSteps)}
    /\ wkind # "none" =>
          (wkind = "NamespaceMissing" /\ Called("KubectlApplyEmbeddedYaml")
           /\ ErrOf("KubectlApplyEmbeddedYaml") = "nil")
    /\ (lpc = "roles" \/ Called("KubectlDeleteEmbeddedYaml")) =>
          /\ wpc = "done" /\ result = "nil"
          /\ ErrOf("WaitForNamespaceMissing") = "nil"
          /\ evals # <<>> /\ evals[Len(evals)].done
    /\ (wpc = "done" /\ result # "nil") =>
          /\ ~Called("KubectlDeleteEmbeddedYaml")
          /\ lpc \in {"wait", "done"}
          /\ lpc = "done" => lret \notin {"nil", "none"}

C27_Witness ==
    /\ lpc = "done"
    /\ Called("WaitForNamespaceMissing")
    /\ result = "timeout"
    /\ lret = "failed to delete namespace"
    /\ Len(evals) > 1
(***************************************************************************)
(* Properties of gitea.New, checked under GiteaSpec.                       *)
(***************************************************************************)

\* the secret lacks the username key or the password key
LacksKey(Data) == Data.username = Absent \/ Data.password = Absent

\* C28: when getGiteaCredentials has read a secret that lacks the username
\* key or the password key, the error it returned is not nil; no Client that
\* New has built, memoized or returned was built from such a secret, and a
\* New that returned without error returned a Client.
C28_MissingKeyIsError ==
    /\ (creds.err # "none" /\ s.err = "nil" /\ LacksKey(s.Data)) => creds.err # "nil"
    /\ \A a \in 1..Len(clients) : ~LacksKey(builtFrom[a])
    /\ clientMemo # Nil => clientMemo \in 1..Len(clients)
    /\ (gpc = "done" /\ gret.err = "nil") => gret.client \in 1..Len(clients)

====
